---- MODULE Spec2Model ----
(***************************************************************************)
(* A model of packages/firestore/scripts/bloom_filter_watch_test/          *)
(* watch_stream.ts: the WatchStream controller (one transport stream, a    *)
(* registry of TargetState machines keyed by target id, inbound message    *)
(* dispatch) and the TargetState machine with its four Deferred            *)
(* completions.                                                            *)
(*                                                                         *)
(* JavaScript runs every handler to completion, so each public call, each  *)
(* transport callback and each resumption after an await is one action.    *)
(* An exception leaves the effects made before it in place; the model      *)
(* keeps them and records the error in `last`.                             *)
(***************************************************************************)
EXTENDS Integers, Sequences, FiniteSets, TLC

(***************************************************************************)
(* Bounds of the model.                                                    *)
(***************************************************************************)
\* addTarget() calls made (each call consumes one target id).
MaxTargets == 2
\* close() calls made on the transport stream.
MaxStreamCloses == 2
\* removeTarget requests written to the transport stream.
MaxRemoveRequests == 1
\* inbound messages delivered by the transport stream.
MaxReceived == 2

\* Document names carried by the messages.
Docs == {"A", "B"}
\* Resume tokens; Null is the absent token (`resumeToken ?? null`).
Tokens == {"T1", "T2"}
Null == "null"
\* Error causes a target-change may carry.
Causes == {"E1", "E2"}

\* Target ids a message or a handle may name (ids not in the registry are
\* unknown ids: never assigned, assigned to a failed call, or evicted).
TargetIds == 1..MaxTargets
\* Id lists of a message: at most two entries, repetitions allowed.
IdLists == {<<>>} \cup {<<i>> : i \in TargetIds} \cup {<<i, j>> : i, j \in TargetIds}

(***************************************************************************)
(* Optional wire fields are sets with at most one element; `opt ?? d`.     *)
(***************************************************************************)
Coalesce(opt, d) == IF opt = {} THEN d ELSE CHOOSE x \in opt : TRUE

RemoveId(s, id) == SelectSeq(s, LAMBDA x : x # id)

Ids(s) == {s[k] : k \in 1..Len(s)}

(***************************************************************************)
(* Deferred (test/util/promise): a settle-once cell over a Promise.  The   *)
(* first resolve or reject wins; later ones are no-ops.                    *)
(***************************************************************************)
NewDeferred(v0) == [st |-> "pending", val |-> v0, err |-> "none"]

DeferredResolve(d, v) ==
  IF d.st = "pending" THEN [st |-> "resolved", val |-> v, err |-> "none"] ELSE d

DeferredReject(d, e) ==
  IF d.st = "pending" THEN [st |-> "rejected", val |-> d.val, err |-> e] ELSE d

Void == "void"

(***************************************************************************)
(* Values.                                                                 *)
(***************************************************************************)
TargetSnapshot(documentPaths, resumeToken) ==
  [documentPaths |-> documentPaths, resumeToken |-> resumeToken]

NoSnapshot == TargetSnapshot({}, Null)

BloomFilter(bytes, padding, hashCount) ==
  [kind |-> "bloom", bitmap |-> bytes, padding |-> padding, hashCount |-> hashCount]

NullFilter == [kind |-> "null", bitmap |-> <<>>, padding |-> 0, hashCount |-> 0]

\* normalizeByteString(bitmap).toUint8Array(): the bytes a base64 string encodes.
ToUint8Array(bitmap) ==
  CASE bitmap = "" -> <<>>
    [] bitmap = "AQ==" -> <<1>>
    [] bitmap = "AQI=" -> <<1, 2>>

(***************************************************************************)
(* createBloomFilterFrom.  The result is [val, err].                       *)
(***************************************************************************)
FilterOk(f) == [val |-> f, err |-> "none"]

FilterThrow == [val |-> NullFilter, err |-> "InvalidBloomFilterError"]

\* Mutant: createBloomFilterFrom accepting a padding of 8.
CreateBloomFilterFromPaddingUpTo8(existenceFilter) ==
  IF existenceFilter.unchangedNames = {} THEN FilterOk(NullFilter)
  ELSE
    LET un == Coalesce(existenceFilter.unchangedNames, 0)
        padding == IF un.bits = {} THEN 0 ELSE Coalesce(Coalesce(un.bits, 0).padding, 0)
        hashCount == Coalesce(un.hashCount, 0)
        bitmap == IF un.bits = {} THEN "" ELSE Coalesce(Coalesce(un.bits, 0).bitmap, "")
        bytes == ToUint8Array(bitmap)
    IN  IF padding < 0 \/ padding > 8 THEN FilterThrow
        ELSE IF hashCount < 0 THEN FilterThrow
        ELSE IF hashCount = 0 /\ Len(bytes) > 0 THEN FilterThrow
        ELSE FilterOk(BloomFilter(bytes, padding, hashCount))

CreateBloomFilterFrom(existenceFilter) ==
  IF existenceFilter.unchangedNames = {} THEN FilterOk(NullFilter)
  ELSE
    LET un == Coalesce(existenceFilter.unchangedNames, 0)
        padding == IF un.bits = {} THEN 0 ELSE Coalesce(Coalesce(un.bits, 0).padding, 0)
        hashCount == Coalesce(un.hashCount, 0)
        bitmap == IF un.bits = {} THEN "" ELSE Coalesce(Coalesce(un.bits, 0).bitmap, "")
        bytes == ToUint8Array(bitmap)
    IN  IF padding < 0 \/ padding > 7 THEN FilterThrow
        ELSE IF hashCount < 0 THEN FilterThrow
        ELSE IF hashCount = 0 /\ Len(bytes) > 0 THEN FilterThrow
        ELSE FilterOk(BloomFilter(bytes, padding, hashCount))

(***************************************************************************)
(* TargetState.  Every transition returns [m, err]: the machine after the  *)
(* call and the error thrown ("none" when the call returned).              *)
(***************************************************************************)
NewTargetState(targetId, initialDocumentPaths) ==
  [targetId |-> targetId,
   added |-> FALSE, removed |-> FALSE, current |-> FALSE,
   names |-> initialDocumentPaths,
   addedD |-> NewDeferred(Void),
   removedD |-> NewDeferred(Void),
   snapD |-> NewDeferred(NoSnapshot),
   filterD |-> NewDeferred(NullFilter)]

Ok(m) == [m |-> m, err |-> "none"]

Throw(m, e) == [m |-> m, err |-> e]

\* Mutant: a rejection that replaces whatever the completions hold.
OnErrorOverwrites(m, error) ==
  LET rejected(d) == [st |-> "rejected", val |-> d.val, err |-> error]
  IN  Ok([m EXCEPT !.addedD = rejected(@), !.removedD = rejected(@),
                   !.snapD = rejected(@), !.filterD = rejected(@)])

OnError(m, error) ==
  Ok([m EXCEPT !.addedD = DeferredReject(@, error),
               !.removedD = DeferredReject(@, error),
               !.snapD = DeferredReject(@, error),
               !.filterD = DeferredReject(@, error)])

OnAdded(m) ==
  IF m.added THEN Throw(m, "TargetStateError")
  ELSE Ok([m EXCEPT !.added = TRUE, !.addedD = DeferredResolve(@, Void)])

OnRemoved(m) ==
  IF m.removed THEN Throw(m, "TargetStateError")
  ELSE IF ~m.added THEN Throw(m, "TargetStateError")
  ELSE Ok([m EXCEPT !.removed = TRUE, !.removedD = DeferredResolve(@, Void)])

\* Mutant: onCurrent() without its test of _removed.
OnCurrentAfterRemoved(m) ==
  IF ~m.added THEN Throw(m, "TargetStateError")
  ELSE Ok([m EXCEPT !.current = TRUE])

OnCurrent(m) ==
  IF ~m.added THEN Throw(m, "TargetStateError")
  ELSE IF m.removed THEN Throw(m, "TargetStateError")
  ELSE Ok([m EXCEPT !.current = TRUE])

\* Mutant: an onReset that keeps the accumulated names.
OnResetKeepingNames(m) ==
  IF ~m.added THEN Throw(m, "TargetStateError")
  ELSE IF m.removed THEN Throw(m, "TargetStateError")
  ELSE Ok([m EXCEPT !.current = FALSE])

OnReset(m) ==
  IF ~m.added THEN Throw(m, "TargetStateError")
  ELSE IF m.removed THEN Throw(m, "TargetStateError")
  ELSE Ok([m EXCEPT !.current = FALSE, !.names = {}])

\* Mutant: onNoChange() resolving the snapshot whether or not current.
OnNoChangeIgnoringCurrent(m, resumeToken) ==
  IF ~m.added THEN Throw(m, "TargetStateError")
  ELSE IF m.removed THEN Throw(m, "TargetStateError")
  ELSE IF resumeToken # Null
       THEN Ok([m EXCEPT !.snapD = DeferredResolve(@, TargetSnapshot(m.names, resumeToken))])
       ELSE Ok(m)

OnNoChange(m, resumeToken) ==
  IF ~m.added THEN Throw(m, "TargetStateError")
  ELSE IF m.removed THEN Throw(m, "TargetStateError")
  ELSE IF m.current /\ resumeToken # Null
       THEN Ok([m EXCEPT !.snapD = DeferredResolve(@, TargetSnapshot(m.names, resumeToken))])
       ELSE Ok(m)

\* Mutant: an onDocumentChanged that leaves the current flag alone.
OnDocumentChangedKeepingCurrent(m, documentName) ==
  IF ~m.added THEN Throw(m, "TargetStateError")
  ELSE IF m.removed THEN Throw(m, "TargetStateError")
  ELSE Ok([m EXCEPT !.names = @ \cup {documentName}])

OnDocumentChanged(m, documentName) ==
  IF ~m.added THEN Throw(m, "TargetStateError")
  ELSE IF m.removed THEN Throw(m, "TargetStateError")
  ELSE Ok([m EXCEPT !.current = FALSE, !.names = @ \cup {documentName}])

OnDocumentRemoved(m, documentName) ==
  IF ~m.added THEN Throw(m, "TargetStateError")
  ELSE IF m.removed THEN Throw(m, "TargetStateError")
  ELSE Ok([m EXCEPT !.current = FALSE, !.names = @ \ {documentName}])

OnExistenceFilter(m, existenceFilter) ==
  IF ~m.added THEN Throw(m, "TargetStateError")
  ELSE IF m.removed THEN Throw(m, "TargetStateError")
  ELSE LET f == CreateBloomFilterFrom(existenceFilter)
       IN  IF f.err # "none" THEN Throw(m, f.err)
           ELSE Ok([m EXCEPT !.filterD = DeferredResolve(@, f.val)])

(***************************************************************************)
(* State.                                                                  *)
(*   stream        WatchStream._stream is set (a transport stream exists)  *)
(*   closed        WatchStream._closed                                     *)
(*   closedD       WatchStream._closedDeferred                             *)
(*   openD         the Deferred whose promise open() returned              *)
(*   nextTargetId  WatchStream._nextTargetId                               *)
(*   targets       the keys of WatchStream._targets, in insertion order    *)
(*   machines      every TargetState object created, by target id (an      *)
(*                 evicted machine stays referenced by the promises that   *)
(*                 callers hold and by a dispatch list resolved earlier)   *)
(*   calls         the addTarget() calls suspended at or past their await  *)
(*   tphase        the transport stream: "none", "connecting" (opened, no  *)
(*                 callback fired yet), "open" (onOpen fired), "closed"    *)
(*   opens         openStream() calls made on the connection               *)
(*   streamCloses  close() calls made on the transport stream              *)
(*   sent          stream.send() calls: [add, remove] requests written     *)
(*   received      inbound messages delivered                              *)
(*   last          the most recent call or callback and its outcome        *)
(*   ghost         per machine, history of the events it was sent          *)
(*   openCalled    open() has been called at least once                    *)
(***************************************************************************)
VARIABLES stream, closed, closedD, openD, nextTargetId, targets, machines, calls,
  tphase, opens, streamCloses, sent, received, last, ghost, openCalled

vars == <<stream, closed, closedD, openD, nextTargetId, targets, machines, calls,
  tphase, opens, streamCloses, sent, received, last, ghost, openCalled>>

ctrl == <<stream, closed, closedD, openD, nextTargetId, targets, calls,
  tphase, opens, streamCloses, sent, received, openCalled>>

\* What `last` records: the operation, the target id of a handle (0 when the
\* operation takes none), the error thrown, the promise returned and, for an
\* inbound message, its id lists (ids: targetIds, or the targetId of a filter;
\* rids: removedTargetIds), the registry as the message found it, and the
\* TargetState methods it invoked, in order.
Observed(op, id, err, ret, ids, rids, reg, disp) ==
  [op |-> op, id |-> id, err |-> err, ret |-> ret,
   ids |-> ids, rids |-> rids, reg |-> reg, disp |-> disp]

Outcome(op, id, err, ret) == Observed(op, id, err, ret, <<>>, <<>>, <<>>, <<>>)

\* No onReset is pending a snapshot.
NoReset == [stage |-> "none", cleared |-> FALSE]

NewGhost(seed) ==
  [acc |-> seed, qual |-> FALSE, firstQual |-> NoSnapshot, errBeforeQual |-> FALSE,
   errd |-> FALSE, sinceReset |-> NoReset, cycle |-> "none"]

Init ==
  /\ stream = FALSE
  /\ closed = FALSE
  /\ closedD = NewDeferred(Void)
  /\ openD = NewDeferred(Void)
  /\ nextTargetId = 1
  /\ targets = <<>>
  /\ machines = <<>>
  /\ calls = <<>>
  /\ tphase = "none"
  /\ opens = 0
  /\ streamCloses = 0
  /\ sent = [add |-> 0, remove |-> 0]
  /\ received = 0
  /\ last = Outcome("new", 0, "none", "none")
  /\ ghost = <<>>
  /\ openCalled = FALSE

(***************************************************************************)
(* WatchStream.open / close.                                               *)
(***************************************************************************)
\* Mutant: open() without its test of _closed.
OpenGuardIgnoringClosed(s, c) == IF s THEN "WatchError" ELSE "none"

\* The guard of open(): the error it throws, "none" when it goes on.
OpenGuard(s, c) == IF s THEN "WatchError" ELSE IF c THEN "WatchError" ELSE "none"

Open ==
  /\ openCalled' = TRUE
  /\ IF OpenGuard(stream, closed) # "none"
     THEN /\ last' = Outcome("open", 0, OpenGuard(stream, closed), "none")
          /\ UNCHANGED <<stream, openD, tphase, opens>>
     ELSE /\ openD' = NewDeferred(Void)
          /\ opens' = opens + 1
          /\ tphase' = "connecting"
          /\ stream' = TRUE
          /\ last' = Outcome("open", 0, "none", "openD")
  /\ UNCHANGED <<closed, closedD, nextTargetId, targets, machines, calls,
                 streamCloses, sent, received, ghost>>

\* What close() does to the transport stream: nothing when there is none.
CloseStream(s, n) == IF ~s THEN n ELSE n + 1

Close ==
  /\ streamCloses < MaxStreamCloses
  /\ closed' = TRUE
  /\ streamCloses' = CloseStream(stream, streamCloses)
  /\ last' = IF ~stream THEN Outcome("close", 0, "none", "resolvedPromise")
             ELSE Outcome("close", 0, "none", "closedD")
  /\ UNCHANGED <<stream, closedD, openD, nextTargetId, targets, machines, calls,
                 tphase, opens, sent, received, ghost, openCalled>>

(***************************************************************************)
(* The transport's callbacks registered by open().                         *)
(***************************************************************************)
\* The errors a transport stream may close with.
StreamErrors == {"EIO"}

StreamOnOpen ==
  /\ tphase = "connecting"
  /\ tphase' = "open"
  /\ openD' = DeferredResolve(openD, Void)
  /\ last' = Outcome("stream.onOpen", 0, "none", "none")
  /\ UNCHANGED <<stream, closed, closedD, nextTargetId, targets, machines, calls,
                 opens, streamCloses, sent, received, ghost, openCalled>>

\* The settlements of the onClose callback: [open, close] completions after it.
\* Mutant: a callback that resolves both whatever the transport passed.
OnCloseSettlesResolving(od, cd, err) ==
  [open |-> DeferredResolve(od, Void), close |-> DeferredResolve(cd, Void)]

OnCloseSettles(od, cd, err) ==
  IF err # {}
  THEN [open |-> DeferredReject(od, Coalesce(err, "none")),
        close |-> DeferredReject(cd, Coalesce(err, "none"))]
  ELSE [open |-> DeferredResolve(od, Void), close |-> DeferredResolve(cd, Void)]

\* Mutant: an onClose callback that also rejects the targets' completions.
StreamOnCloseRejectingTargets(err) ==
  /\ tphase \in {"connecting", "open"}
  /\ tphase' = "closed"
  /\ openD' = OnCloseSettles(openD, closedD, err).open
  /\ closedD' = OnCloseSettles(openD, closedD, err).close
  /\ machines' = [i \in DOMAIN machines |->
                    IF err = {} THEN machines[i] ELSE OnError(machines[i], Coalesce(err, "none")).m]
  /\ last' = Outcome("stream.onClose", 0, Coalesce(err, "none"), "none")
  /\ UNCHANGED <<stream, closed, nextTargetId, targets, calls,
                 opens, streamCloses, sent, received, ghost, openCalled>>

\* `last.err` of a transport callback is the error the transport passed to it.
StreamOnClose(err) ==
  /\ tphase \in {"connecting", "open"}
  /\ tphase' = "closed"
  /\ openD' = OnCloseSettles(openD, closedD, err).open
  /\ closedD' = OnCloseSettles(openD, closedD, err).close
  /\ last' = Outcome("stream.onClose", 0, Coalesce(err, "none"), "none")
  /\ UNCHANGED <<stream, closed, nextTargetId, targets, machines, calls,
                 opens, streamCloses, sent, received, ghost, openCalled>>

(***************************************************************************)
(* WatchStream.addTarget / removeTarget / getInitialSnapshot /             *)
(* getExistenceFilter.                                                     *)
(***************************************************************************)
\* The resume descriptors a caller passes: none, or a prior snapshot.
ResumeInputs == {{}, {TargetSnapshot({"A"}, "T1")}}

\* `targetInfo?.resume?.from.documentPaths`, absent paths seeding nothing.
InitialDocumentPaths(resume) ==
  IF resume = {} THEN {} ELSE Coalesce(resume, NoSnapshot).documentPaths

\* Mutant: the guard without its test of _closed.
StreamGuardIgnoringClosed(s, c) == IF ~s THEN "WatchError" ELSE "none"

\* The guard of addTarget() and removeTarget() on the stream's state.
StreamGuard(s, c) == IF ~s THEN "WatchError" ELSE IF c THEN "WatchError" ELSE "none"

\* Mutant: an addTarget() that takes its id only once the guard has passed.
AddTargetTakingIdAfterGuard(resume) ==
  /\ nextTargetId <= MaxTargets
  /\ IF StreamGuard(stream, closed) # "none"
     THEN /\ last' = Outcome("addTarget", nextTargetId, StreamGuard(stream, closed), "none")
          /\ UNCHANGED <<nextTargetId, targets, machines, calls, sent, ghost>>
     ELSE /\ nextTargetId' = nextTargetId + 1
          /\ machines' = (nextTargetId :> NewTargetState(nextTargetId, InitialDocumentPaths(resume))) @@ machines
          /\ ghost' = (nextTargetId :> NewGhost(InitialDocumentPaths(resume))) @@ ghost
          /\ targets' = Append(targets, nextTargetId)
          /\ sent' = [sent EXCEPT !.add = @ + 1]
          /\ calls' = (nextTargetId :> [st |-> "awaiting", err |-> "none"]) @@ calls
          /\ last' = Outcome("addTarget", nextTargetId, "none", "pending")
  /\ UNCHANGED <<stream, closed, closedD, openD, tphase, opens, streamCloses,
                 received, openCalled>>

\* Up to the await: the id is taken before the guard is tested.
AddTarget(resume) ==
  /\ nextTargetId <= MaxTargets
  /\ nextTargetId' = nextTargetId + 1
  /\ IF StreamGuard(stream, closed) # "none"
     THEN /\ last' = Outcome("addTarget", nextTargetId, StreamGuard(stream, closed), "none")
          /\ UNCHANGED <<targets, machines, calls, sent, ghost>>
     ELSE /\ machines' = (nextTargetId :> NewTargetState(nextTargetId, InitialDocumentPaths(resume))) @@ machines
          /\ ghost' = (nextTargetId :> NewGhost(InitialDocumentPaths(resume))) @@ ghost
          /\ targets' = Append(targets, nextTargetId)
          /\ sent' = [sent EXCEPT !.add = @ + 1]
          /\ calls' = (nextTargetId :> [st |-> "awaiting", err |-> "none"]) @@ calls
          /\ last' = Outcome("addTarget", nextTargetId, "none", "pending")
  /\ UNCHANGED <<stream, closed, closedD, openD, tphase, opens, streamCloses,
                 received, openCalled>>

\* Mutant: the await swallowing a rejection.
AwaitAddedSwallowing(d) == [st |-> "returned", err |-> "none"]

\* How `await targetState.addedPromise` ends once the promise has settled.
AwaitAdded(d) ==
  IF d.st = "resolved" THEN [st |-> "returned", err |-> "none"]
  ELSE [st |-> "rejected", err |-> d.err]

\* After the await: the call returns its handle, or rejects.
AddTargetResume(id) ==
  /\ id \in DOMAIN calls
  /\ calls[id].st = "awaiting"
  /\ machines[id].addedD.st # "pending"
  /\ calls' = [calls EXCEPT ![id] = AwaitAdded(machines[id].addedD)]
  /\ last' = Outcome("addTarget.resume", id, calls'[id].err,
                     IF calls'[id].st = "returned" THEN "handle" ELSE "none")
  /\ UNCHANGED <<stream, closed, closedD, openD, nextTargetId, targets, machines,
                 tphase, opens, streamCloses, sent, received, ghost, openCalled>>

\* `this._targets.get(targetId) === undefined`
Unregistered(ts, id) == id \notin Ids(ts)

\* Mutant: removeTarget() without its lookup of the registry.
RemoveTargetGuardWithoutLookup(s, c, ts, id) == StreamGuard(s, c)

\* The error removeTarget(handle) throws, "none" when it sends its request.
RemoveTargetGuard(s, c, ts, id) ==
  IF StreamGuard(s, c) # "none" THEN StreamGuard(s, c)
  ELSE IF Unregistered(ts, id) THEN "WatchError"
  ELSE "none"

RemoveTarget(id) ==
  /\ sent.remove < MaxRemoveRequests
  /\ IF RemoveTargetGuard(stream, closed, targets, id) # "none"
     THEN /\ last' = Outcome("removeTarget", id, RemoveTargetGuard(stream, closed, targets, id), "none")
          /\ UNCHANGED sent
     ELSE /\ sent' = [sent EXCEPT !.remove = @ + 1]
          /\ last' = Outcome("removeTarget", id, "none", "removedD")
  /\ UNCHANGED <<stream, closed, closedD, openD, nextTargetId, targets, machines, calls,
                 tphase, opens, streamCloses, received, ghost, openCalled>>

\* The error a getter throws for a handle, "none" when it returns the promise.
GetterGuard(ts, id) == IF Unregistered(ts, id) THEN "WatchError" ELSE "none"

GetInitialSnapshot(id) ==
  /\ last' = IF GetterGuard(targets, id) # "none"
             THEN Outcome("getInitialSnapshot", id, GetterGuard(targets, id), "none")
             ELSE Outcome("getInitialSnapshot", id, "none", "snapD")
  /\ UNCHANGED <<ctrl, machines, ghost>>

GetExistenceFilter(id) ==
  /\ last' = IF GetterGuard(targets, id) # "none"
             THEN Outcome("getExistenceFilter", id, GetterGuard(targets, id), "none")
             ELSE Outcome("getExistenceFilter", id, "none", "filterD")
  /\ UNCHANGED <<ctrl, machines, ghost>>

(***************************************************************************)
(* Inbound messages.  A handler works on a context: the machines and the   *)
(* registry as changed so far, the ghost history, the methods invoked so   *)
(* far (disp) and the error that ended the handler ("none" while it runs). *)
(***************************************************************************)
Event(ev, token, doc, cause, filter) ==
  [ev |-> ev, token |-> token, doc |-> doc, cause |-> cause, filter |-> filter]

NoFilter == [unchangedNames |-> {}]

EvError(cause) == Event("onError", Null, "", cause, NoFilter)

EvAdded == Event("onAdded", Null, "", "none", NoFilter)

EvRemoved == Event("onRemoved", Null, "", "none", NoFilter)

EvCurrent == Event("onCurrent", Null, "", "none", NoFilter)

EvReset == Event("onReset", Null, "", "none", NoFilter)

EvNoChange(token) == Event("onNoChange", token, "", "none", NoFilter)

EvDocumentChanged(doc) == Event("onDocumentChanged", Null, doc, "none", NoFilter)

EvDocumentRemoved(doc) == Event("onDocumentRemoved", Null, doc, "none", NoFilter)

EvExistenceFilter(filter) == Event("onExistenceFilter", Null, "", "none", filter)

\* The method of TargetState an event names.
Invoke(m, e) ==
  CASE e.ev = "onError" -> OnError(m, e.cause)
    [] e.ev = "onAdded" -> OnAdded(m)
    [] e.ev = "onRemoved" -> OnRemoved(m)
    [] e.ev = "onCurrent" -> OnCurrent(m)
    [] e.ev = "onReset" -> OnReset(m)
    [] e.ev = "onNoChange" -> OnNoChange(m, e.token)
    [] e.ev = "onDocumentChanged" -> OnDocumentChanged(m, e.doc)
    [] e.ev = "onDocumentRemoved" -> OnDocumentRemoved(m, e.doc)
    [] e.ev = "onExistenceFilter" -> OnExistenceFilter(m, e.filter)

\* History of a machine, from the machine before the event and the event.
\*   errd           an onError was invoked
\*   acc            the seed members, plus the names of every onDocumentChanged,
\*                  minus those of every onDocumentRemoved, emptied by onReset
\*                  (events invoked while added and not removed)
\*   qual           an onNoChange carrying a token was invoked while the
\*                  machine was added, not removed and current
\*   firstQual      acc and the token at the first such onNoChange
\*   errBeforeQual  an onError had been invoked before it
\*   sinceReset     stage "reset": the last onReset, onRemoved or document
\*                  delta was an onReset; stage "current": an onCurrent came
\*                  after it, and none of these three since; cleared: that
\*                  onReset found a non-empty accumulated set
HistoryAfter(g, m, e) ==
  IF e.ev = "onError" THEN [g EXCEPT !.errd = TRUE]
  ELSE IF ~(m.added /\ ~m.removed) THEN g
  ELSE IF e.ev = "onDocumentChanged"
       THEN [g EXCEPT !.acc = @ \cup {e.doc}, !.sinceReset = NoReset]
  ELSE IF e.ev = "onDocumentRemoved"
       THEN [g EXCEPT !.acc = @ \ {e.doc}, !.sinceReset = NoReset]
  ELSE IF e.ev = "onReset"
       THEN [g EXCEPT !.acc = {},
                      !.sinceReset = [stage |-> "reset", cleared |-> m.names # {}]]
  ELSE IF e.ev = "onRemoved" THEN [g EXCEPT !.sinceReset = NoReset]
  ELSE IF e.ev = "onCurrent" /\ g.sinceReset.stage = "reset"
       THEN [g EXCEPT !.sinceReset.stage = "current"]
  ELSE IF e.ev = "onNoChange" /\ e.token # Null /\ m.current /\ ~g.qual
       THEN [g EXCEPT !.qual = TRUE,
                      !.firstQual = TargetSnapshot(g.acc, e.token),
                      !.errBeforeQual = g.errd]
       ELSE g

\* Where the machine stands between a CURRENT and the token that completes it:
\*   "current"            an onCurrent was accepted, no delta or onReset since
\*   "currentDelta"       a document delta was accepted after that onCurrent
\*   "currentDeltaToken"  and an onNoChange with a token was accepted after it
\*   "none"               otherwise
CycleAfter(cycle, m, e) ==
  IF e.ev = "onError" \/ ~(m.added /\ ~m.removed) THEN cycle
  ELSE IF e.ev = "onCurrent" THEN "current"
  ELSE IF e.ev = "onReset" THEN "none"
  ELSE IF e.ev \in {"onDocumentChanged", "onDocumentRemoved"}
       THEN (IF cycle = "none" THEN "none" ELSE "currentDelta")
  ELSE IF e.ev = "onNoChange" /\ e.token # Null /\ cycle = "currentDelta"
       THEN "currentDeltaToken"
  ELSE cycle

GhostAfter(g, m, e) == [HistoryAfter(g, m, e) EXCEPT !.cycle = CycleAfter(g.cycle, m, e)]

Context(ms, ts, gh) ==
  [machines |-> ms, targets |-> ts, ghost |-> gh, disp |-> <<>>, err |-> "none"]

Fail(ctx, e) == [ctx EXCEPT !.err = e]

ApplyEvent(ctx, id, e) ==
  LET m == ctx.machines[id]
      r == Invoke(m, e)
  IN  [ctx EXCEPT !.machines[id] = r.m,
                  !.ghost[id] = GhostAfter(@, m, e),
                  !.disp = Append(@, [id |-> id, ev |-> e.ev]),
                  !.err = r.err]

\* Mutant: a lookup that skips the ids it does not find.
TargetStatesForTargetIdsSkippingUnknown(ts, targetIds, allTargetsIfEmpty) ==
  LET found == SelectSeq(targetIds, LAMBDA x : ~Unregistered(ts, x))
  IN  IF Len(found) > 0 \/ ~allTargetsIfEmpty
      THEN [states |-> found, err |-> "none"]
      ELSE [states |-> ts, err |-> "none"]

\* _targetStatesForTargetIds: the machines (by id) a list of ids names.
TargetStatesForTargetIds(ts, targetIds, allTargetsIfEmpty) ==
  IF \E k \in 1..Len(targetIds) : Unregistered(ts, targetIds[k])
  THEN [states |-> <<>>, err |-> "WatchError"]
  ELSE IF Len(targetIds) > 0 \/ ~allTargetsIfEmpty
  THEN [states |-> targetIds, err |-> "none"]
  ELSE [states |-> ts, err |-> "none"]

\* Mutant: a REMOVE that leaves the machine registered.
EvictNothing(ts, id) == ts

\* `this._targets.delete(targetState.targetId)` after onRemoved() returned.
Evict(ts, id) == RemoveId(ts, id)

\* Mutant: a loop body that ends the message after a machine's error path.
ApplyTargetChangeStoppingAtCause(ctx, id, tc) ==
  IF tc.cause # {}
  THEN Fail(ApplyEvent(ctx, id, EvError(Coalesce(tc.cause, "none"))), "WatchError")
  ELSE LET type == Coalesce(tc.targetChangeType, "NO_CHANGE") IN
    CASE type = "ADD" -> ApplyEvent(ctx, id, EvAdded)
      [] type = "REMOVE" ->
           LET c == ApplyEvent(ctx, id, EvRemoved)
           IN  IF c.err = "none" THEN [c EXCEPT !.targets = Evict(@, id)] ELSE c
      [] type = "CURRENT" -> ApplyEvent(ctx, id, EvCurrent)
      [] type = "RESET" -> ApplyEvent(ctx, id, EvReset)
      [] type = "NO_CHANGE" -> ApplyEvent(ctx, id, EvNoChange(tc.resumeToken))
      [] OTHER -> Fail(ctx, "WatchError")

\* The body of the loop of _onTargetChange for one machine.
ApplyTargetChange(ctx, id, tc) ==
  IF tc.cause # {} THEN ApplyEvent(ctx, id, EvError(Coalesce(tc.cause, "none")))
  ELSE LET type == Coalesce(tc.targetChangeType, "NO_CHANGE") IN
    CASE type = "ADD" -> ApplyEvent(ctx, id, EvAdded)
      [] type = "REMOVE" ->
           LET c == ApplyEvent(ctx, id, EvRemoved)
           IN  IF c.err = "none" THEN [c EXCEPT !.targets = Evict(@, id)] ELSE c
      [] type = "CURRENT" -> ApplyEvent(ctx, id, EvCurrent)
      [] type = "RESET" -> ApplyEvent(ctx, id, EvReset)
      [] type = "NO_CHANGE" -> ApplyEvent(ctx, id, EvNoChange(tc.resumeToken))
      [] OTHER -> Fail(ctx, "WatchError")

\* Mutant: a loop that goes on to the next machine after a throw.
RECURSIVE TargetChangeLoopContinuing(_, _, _)
TargetChangeLoopContinuing(ctx, states, tc) ==
  IF states = <<>> THEN ctx
  ELSE LET c == ApplyTargetChange(ctx, Head(states), tc)
       IN  TargetChangeLoopContinuing(
             [c EXCEPT !.err = IF ctx.err # "none" THEN ctx.err ELSE c.err],
             Tail(states), tc)

RECURSIVE TargetChangeLoop(_, _, _)
TargetChangeLoop(ctx, states, tc) ==
  IF states = <<>> \/ ctx.err # "none" THEN ctx
  ELSE TargetChangeLoop(ApplyTargetChange(ctx, Head(states), tc), Tail(states), tc)

\* Mutant: an empty list of a target-change naming no target.
TargetChangeNeverAll == FALSE

\* Whether the target ids of a target-change stand for every target when empty.
TargetChangeAllIfEmpty == TRUE

OnTargetChangeCtx(ctx, tc) ==
  LET r == TargetStatesForTargetIds(ctx.targets, tc.targetIds, TargetChangeAllIfEmpty)
  IN  IF r.err # "none" THEN Fail(ctx, r.err) ELSE TargetChangeLoop(ctx, r.states, tc)

RECURSIVE EventLoop(_, _, _)
EventLoop(ctx, states, e) ==
  IF states = <<>> \/ ctx.err # "none" THEN ctx
  ELSE EventLoop(ApplyEvent(ctx, Head(states), e), Tail(states), e)

\* One loop of a document handler: resolve the list, then invoke the method
\* on each machine; nothing runs once an error was thrown.
DocumentLoop(ctx, targetIds, allTargetsIfEmpty, e) ==
  IF ctx.err # "none" THEN ctx
  ELSE LET r == TargetStatesForTargetIds(ctx.targets, targetIds, allTargetsIfEmpty)
       IN  IF r.err # "none" THEN Fail(ctx, r.err) ELSE EventLoop(ctx, r.states, e)

\* Whether the targetIds of a document-change stand for every target when empty.
DocumentChangeAllIfEmpty == TRUE

\* Mutant: a document-change that runs its removals before its additions.
OnDocumentChangeCtxRemovingFirst(ctx, dc) ==
  DocumentLoop(
    DocumentLoop(ctx, dc.removedTargetIds, FALSE, EvDocumentRemoved(dc.document)),
    dc.targetIds, DocumentChangeAllIfEmpty, EvDocumentChanged(dc.document))

OnDocumentChangeCtx(ctx, dc) ==
  DocumentLoop(
    DocumentLoop(ctx, dc.targetIds, DocumentChangeAllIfEmpty, EvDocumentChanged(dc.document)),
    dc.removedTargetIds, FALSE, EvDocumentRemoved(dc.document))

OnDocumentRemoveCtx(ctx, dr) ==
  DocumentLoop(ctx, dr.removedTargetIds, FALSE, EvDocumentRemoved(dr.document))

OnDocumentDeleteCtx(ctx, dd) ==
  DocumentLoop(ctx, dd.removedTargetIds, FALSE, EvDocumentRemoved(dd.document))

OnExistenceFilterCtx(ctx, ef) ==
  IF Unregistered(ctx.targets, ef.targetId) THEN Fail(ctx, "WatchError")
  ELSE ApplyEvent(ctx, ef.targetId, EvExistenceFilter(ef))

(***************************************************************************)
(* The messages the server sends to the controller.                        *)
(***************************************************************************)
OptCause(S) == {{}} \cup {{x} : x \in S}

OptType == {{}} \cup {{x} : x \in {"ADD", "REMOVE", "CURRENT", "RESET", "NO_CHANGE", "BOGUS"}}

\* A resume token is read for NO_CHANGE only, and the change type only when
\* no cause is given: the combinations that differ in an unread field alone
\* are left out.
TargetChangeInputs ==
  {tc \in [targetIds : IdLists, cause : OptCause({"E1"}), targetChangeType : OptType,
           resumeToken : {"T1", Null}] :
     /\ tc.cause # {} => tc.targetChangeType \in {{"ADD"}, {"REMOVE"}} /\ tc.resumeToken = Null
     /\ tc.targetChangeType \notin {{}, {"NO_CHANGE"}} => tc.resumeToken = Null
     /\ tc.targetChangeType = {} => tc.resumeToken = "T1"}

DocumentChangeInputs ==
  [targetIds : IdLists, removedTargetIds : IdLists, document : {"A"}]

DocumentRemoveInputs == [removedTargetIds : IdLists, document : {"A"}]

\* No payload, a well-formed filter, a filter with an invalid padding.
UnchangedNamesInputs ==
  {{},
   {[bits |-> {[padding |-> {7}, bitmap |-> {"AQ=="}]}, hashCount |-> {1}]},
   {[bits |-> {[padding |-> {8}, bitmap |-> {}]}, hashCount |-> {}]}}

ExistenceFilterInputs == [targetId : TargetIds, unchangedNames : UnchangedNamesInputs]

(***************************************************************************)
(* _onMessageReceived, one action per kind of message.                     *)
(***************************************************************************)
Here == Context(machines, targets, ghost)

\* The state after a handler that ended in context c.
Receive(op, ids, rids, c) ==
  /\ received' = received + 1
  /\ machines' = c.machines
  /\ targets' = c.targets
  /\ ghost' = c.ghost
  /\ last' = Observed(op, 0, c.err, "none", ids, rids, targets, c.disp)
  /\ UNCHANGED <<stream, closed, closedD, openD, nextTargetId, calls, tphase, opens,
                 streamCloses, sent, openCalled>>

\* The transport delivers a message while its stream is open.
Delivering == tphase = "open" /\ received < MaxReceived

OnTargetChange(tc) ==
  /\ Delivering
  /\ Receive("targetChange", tc.targetIds, <<>>, OnTargetChangeCtx(Here, tc))

OnDocumentChange(dc) ==
  /\ Delivering
  /\ Receive("documentChange", dc.targetIds, dc.removedTargetIds, OnDocumentChangeCtx(Here, dc))

OnDocumentRemove(dr) ==
  /\ Delivering
  /\ Receive("documentRemove", <<>>, dr.removedTargetIds, OnDocumentRemoveCtx(Here, dr))

OnDocumentDelete(dd) ==
  /\ Delivering
  /\ Receive("documentDelete", <<>>, dd.removedTargetIds, OnDocumentDeleteCtx(Here, dd))

OnExistenceFilterMsg(ef) ==
  /\ Delivering
  /\ Receive("filter", <<ef.targetId>>, <<>>, OnExistenceFilterCtx(Here, ef))

Next ==
  \/ Open
  \/ Close
  \/ StreamOnOpen
  \/ \E err \in OptCause(StreamErrors) : StreamOnClose(err)
  \/ \E resume \in ResumeInputs : AddTarget(resume)
  \/ \E id \in TargetIds : AddTargetResume(id)
  \/ \E id \in TargetIds : RemoveTarget(id)
  \/ \E id \in TargetIds : GetInitialSnapshot(id)
  \/ \E id \in TargetIds : GetExistenceFilter(id)
  \/ \E tc \in TargetChangeInputs : OnTargetChange(tc)
  \/ \E dc \in DocumentChangeInputs : OnDocumentChange(dc)
  \/ \E dr \in DocumentRemoveInputs : OnDocumentRemove(dr)
  \/ \E dd \in DocumentRemoveInputs : OnDocumentDelete(dd)
  \/ \E ef \in ExistenceFilterInputs : OnExistenceFilterMsg(ef)

Spec == Init /\ [][Next]_vars

(***************************************************************************)
(* A TargetState on its own: one machine, constructed with any seed, whose *)
(* methods are invoked in any order with any argument.                     *)
(***************************************************************************)
\* Existence filters: no payload; two well-formed ones; an invalid padding,
\* a negative hash count, a zero hash count with a non-empty bitmap.
ExistenceFilters ==
  {[unchangedNames |-> un] : un \in
     {{},
      {[bits |-> {[padding |-> {}, bitmap |-> {"AQ=="}]}, hashCount |-> {1}]},
      {[bits |-> {[padding |-> {7}, bitmap |-> {}]}, hashCount |-> {0}]},
      {[bits |-> {[padding |-> {8}, bitmap |-> {}]}, hashCount |-> {}]},
      {[bits |-> {}, hashCount |-> {-1}]},
      {[bits |-> {[padding |-> {}, bitmap |-> {"AQ=="}]}, hashCount |-> {}]}}}

TSEvents ==
  {EvAdded, EvRemoved, EvCurrent, EvReset}
    \cup {EvError(c) : c \in Causes}
    \cup {EvNoChange(t) : t \in Tokens \cup {Null}}
    \cup {EvDocumentChanged(d) : d \in Docs}
    \cup {EvDocumentRemoved(d) : d \in Docs}
    \cup {EvExistenceFilter(f) : f \in ExistenceFilters}

InitTS ==
  /\ stream = FALSE
  /\ closed = FALSE
  /\ closedD = NewDeferred(Void)
  /\ openD = NewDeferred(Void)
  /\ nextTargetId = 1
  /\ targets = <<>>
  /\ calls = <<>>
  /\ tphase = "none"
  /\ opens = 0
  /\ streamCloses = 0
  /\ sent = [add |-> 0, remove |-> 0]
  /\ received = 0
  /\ openCalled = FALSE
  /\ \E seed \in SUBSET Docs :
       /\ machines = (1 :> NewTargetState(1, seed))
       /\ ghost = (1 :> NewGhost(seed))
  /\ last = Outcome("new", 1, "none", "none")

TSInvoke(e) ==
  LET c == ApplyEvent(Here, 1, e)
  IN  /\ machines' = c.machines
      /\ ghost' = c.ghost
      /\ last' = Outcome(e.ev, 1, c.err, "none")
      /\ UNCHANGED ctrl

TSOnError(cause) ==
  /\ 1 \in DOMAIN machines
  /\ TSInvoke(EvError(cause))

TSOnAdded ==
  /\ 1 \in DOMAIN machines
  /\ TSInvoke(EvAdded)

TSOnRemoved ==
  /\ 1 \in DOMAIN machines
  /\ TSInvoke(EvRemoved)

TSOnCurrent ==
  /\ 1 \in DOMAIN machines
  /\ TSInvoke(EvCurrent)

TSOnReset ==
  /\ 1 \in DOMAIN machines
  /\ TSInvoke(EvReset)

TSOnNoChange(token) ==
  /\ 1 \in DOMAIN machines
  /\ TSInvoke(EvNoChange(token))

TSOnDocumentChanged(doc) ==
  /\ 1 \in DOMAIN machines
  /\ TSInvoke(EvDocumentChanged(doc))

TSOnDocumentRemoved(doc) ==
  /\ 1 \in DOMAIN machines
  /\ TSInvoke(EvDocumentRemoved(doc))

TSOnExistenceFilter(filter) ==
  /\ 1 \in DOMAIN machines
  /\ TSInvoke(EvExistenceFilter(filter))

NextTS ==
  \/ \E c \in Causes : TSOnError(c)
  \/ TSOnAdded
  \/ TSOnRemoved
  \/ TSOnCurrent
  \/ TSOnReset
  \/ \E t \in Tokens \cup {Null} : TSOnNoChange(t)
  \/ \E d \in Docs : TSOnDocumentChanged(d)
  \/ \E d \in Docs : TSOnDocumentRemoved(d)
  \/ \E f \in ExistenceFilters : TSOnExistenceFilter(f)

SpecTS == InitTS /\ [][NextTS]_vars

(***************************************************************************)
(* Properties.                                                             *)
(***************************************************************************)
\* The guard each method of TargetState is documented to have.
Accepts(m, e) ==
  CASE e.ev = "onError" -> TRUE
    [] e.ev = "onAdded" -> ~m.added
    [] OTHER -> m.added /\ ~m.removed

\* C1: in every state a TargetState can reach, onAdded is accepted only while
\* not added, and onRemoved, onCurrent, onReset, onNoChange, onDocumentChanged,
\* onDocumentRemoved and onExistenceFilter only while added and not removed; an
\* event outside its guard throws TargetStateError and changes nothing of the
\* machine (flags, accumulated set, completions).
C1_GuardsEnforced ==
  \A i \in DOMAIN machines : \A e \in TSEvents :
    LET m == machines[i]
        r == Invoke(m, e)
    IN  /\ (r.err = "TargetStateError") <=> ~Accepts(m, e)
        /\ r.err = "TargetStateError" => r.m = m

\* C1 witness: onCurrent was invoked on a removed machine and threw.
C1_Witness ==
  /\ last.op = "onCurrent"
  /\ last.err = "TargetStateError"
  /\ machines[1].removed

\* C2 as stated: the snapshot completion is resolved exactly when a first
\* onNoChange with a token has occurred while current, with the accumulated
\* set and the token of that event.
C2_ResolvedAtFirstQualifying ==
  \A i \in DOMAIN machines :
    LET m == machines[i]
        g == ghost[i]
    IN  /\ (m.snapD.st = "resolved") <=> g.qual
        /\ g.qual => m.snapD.val = g.firstQual

\* C2 amended: the accumulated set is the seed plus the changed names minus the
\* removed ones, emptied by onReset; the snapshot completion is resolved exactly
\* when a first onNoChange with a token has occurred while current and no
\* onError came before it, with (the accumulated set then, that token); when
\* an onError came first the completion is rejected and stays so; an onNoChange
\* with a null token or while not current changes no completion.
C2_ResolvedAtFirstQualifyingUnlessRejected ==
  \A i \in DOMAIN machines :
    LET m == machines[i]
        g == ghost[i]
    IN  /\ m.names = g.acc
        /\ (m.snapD.st = "resolved") <=> (g.qual /\ ~g.errBeforeQual)
        /\ m.snapD.st = "resolved" => m.snapD.val = g.firstQual
        /\ (g.qual /\ g.errBeforeQual) => m.snapD.st = "rejected"
        /\ \A t \in Tokens \cup {Null} :
             (t = Null \/ ~m.current) => OnNoChange(m, t).m = m

\* C2 witness: onAdded, onDocumentChanged(A), onDocumentChanged(B), onCurrent,
\* onNoChange(T1) has resolved ({A, B}, T1).
C2_Witness ==
  /\ last.op = "onNoChange"
  /\ ghost[1].qual
  /\ machines[1].snapD = [st |-> "resolved", val |-> TargetSnapshot({"A", "B"}, "T1"), err |-> "none"]

Completions(m) == <<m.addedD, m.removedD, m.snapD, m.filterD>>

\* C3: a completion that has settled keeps its outcome and its value whatever
\* event is applied next.
C3_SettleOnce ==
  \A i \in DOMAIN machines : \A e \in TSEvents :
    LET m == machines[i]
        r == Invoke(m, e)
    IN  \A k \in 1..4 :
          Completions(m)[k].st # "pending" => Completions(r.m)[k] = Completions(m)[k]

\* C3 witness: a snapshot resolved, the accumulated set changed afterwards, and
\* an onError arrived after that resolution (it rejected the removed completion
\* and left the added and the snapshot completions resolved).
C3_Witness ==
  /\ machines[1].snapD.st = "resolved"
  /\ machines[1].names # machines[1].snapD.val.documentPaths
  /\ machines[1].addedD.st = "resolved"
  /\ machines[1].removedD.st = "rejected"
  /\ machines[1].filterD.st = "resolved"

\* The ids of the machines a message invoked a method on, in order.
Dispatched(disp) == [k \in 1..Len(disp) |-> disp[k].id]

IsPrefix(a, b) == Len(a) <= Len(b) /\ \A k \in 1..Len(a) : a[k] = b[k]

\* C4 as stated: a target-change that is not refused as a protocol violation
\* (unknown id, unknown change type) is applied to every registered machine
\* when its id list is empty, and to exactly the named machines otherwise.
C4_AppliedToAllOrNamed ==
  (last.op = "targetChange" /\ last.err # "WatchError") =>
    Ids(Dispatched(last.disp)) = Ids(IF last.ids = <<>> THEN last.reg ELSE last.ids)

\* C4 amended: a target-change is dispatched, in order, to the machines
\* registered when it is processed if its id list is empty and to the named
\* machines otherwise, and to no other machine; one that raises no error
\* reaches all of them; one on which a transition throws TargetStateError
\* reaches the machines up to the one that threw and none after it; one refused
\* with WatchError reaches none.
C4_AppliedToAllOrNamedUntilThrow ==
  last.op = "targetChange" =>
    LET resolved == IF last.ids = <<>> THEN last.reg ELSE last.ids
        got == Dispatched(last.disp)
    IN  /\ IsPrefix(got, resolved)
        /\ last.err = "none" => got = resolved
        /\ last.err = "TargetStateError" => Len(got) >= 1
        /\ last.err = "WatchError" => got = <<>>

\* C4 witness: a target-change with an empty id list reached both registered
\* machines.
C4_Witness ==
  /\ last.op = "targetChange"
  /\ last.ids = <<>>
  /\ last.err = "none"
  /\ Len(last.reg) = 2
  /\ Dispatched(last.disp) = last.reg

DocumentOps == {"documentChange", "documentRemove", "documentDelete"}

\* C5: a document-change whose targetIds list is empty adds the name to no
\* machine's accumulated set and changes the current flag of no machine (other
\* than those its removedTargetIds name); a document-change, document-remove or
\* document-delete whose removedTargetIds list is empty removes the name from
\* no machine's accumulated set.
C5_EmptyListsNameNoTarget ==
  [][/\ (last'.op = "documentChange" /\ received' # received /\ last'.ids = <<>>) =>
          \A i \in DOMAIN machines :
            /\ machines'[i].names \subseteq machines[i].names
            /\ i \notin Ids(last'.rids) => machines'[i].current = machines[i].current
     /\ (last'.op \in DocumentOps /\ received' # received /\ last'.rids = <<>>) =>
          \A i \in DOMAIN machines : machines[i].names \subseteq machines'[i].names
    ]_vars

\* C6: the registry holds exactly the ids of the machines addTarget created
\* whose REMOVE has not been processed (so no registered machine is removed),
\* and a getInitialSnapshot, getExistenceFilter or removeTarget for an evicted
\* id throws WatchError.
C6_RegistryIsCreatedMinusRemoved ==
  /\ Ids(targets) = {i \in DOMAIN machines : ~machines[i].removed}
  /\ \A k, l \in 1..Len(targets) : targets[k] = targets[l] => k = l
  /\ (/\ last.op \in {"getInitialSnapshot", "getExistenceFilter", "removeTarget"}
      /\ last.id \in DOMAIN machines
      /\ machines[last.id].removed) => last.err = "WatchError"

\* C6 witness: getInitialSnapshot for an id evicted by its REMOVE threw, with
\* the other machine still registered after a removeTarget call for it.
C6_Witness ==
  /\ last.op = "getInitialSnapshot"
  /\ last.err = "WatchError"
  /\ last.id \in DOMAIN machines
  /\ machines[last.id].removed
  /\ machines[last.id].removedD.st = "resolved"
  /\ Len(targets) = 1

\* C7: an addTarget call has returned its handle only if the added completion
\* of its machine is resolved (an ADD was processed for it); when that
\* completion was rejected the call has not returned and, once resumed, has
\* rejected with the completion's error, whether or not an ADD came later.
C7_HandleOnlyAfterAdded ==
  \A i \in DOMAIN calls :
    LET d == machines[i].addedD
    IN  /\ calls[i].st = "returned" => (d.st = "resolved" /\ machines[i].added)
        /\ d.st = "pending" => calls[i].st = "awaiting"
        /\ d.st = "rejected" => calls[i].st \in {"awaiting", "rejected"}
        /\ calls[i].st = "rejected" => (d.st = "rejected" /\ calls[i].err = d.err)

\* C7 witness: an addTarget call rejected with the cause, and the ADD for its
\* id was processed afterwards.
C7_Witness ==
  \E i \in DOMAIN calls :
    /\ calls[i].st = "rejected"
    /\ calls[i].err = "E1"
    /\ machines[i].added

\* C8 as stated: removeTarget for an id that no addTarget call has returned
\* throws WatchError.
C8_UnreturnedIdThrows ==
  (/\ last.op = "removeTarget"
   /\ ~(last.id \in DOMAIN calls /\ calls[last.id].st = "returned")) =>
     last.err = "WatchError"

\* C8 amended: removeTarget throws WatchError exactly when the stream was never
\* opened, close() was called, or the id is not in the registry (never given to
\* a machine by addTarget, or evicted by its REMOVE); for an id whose addTarget
\* is still awaiting its ADD or was rejected, the machine is registered and
\* the call sends its request and returns the removed completion.
C8_UnregisteredIdThrows ==
  last.op = "removeTarget" =>
    /\ (last.err = "WatchError") <=> (~stream \/ closed \/ last.id \notin Ids(targets))
    /\ last.err = "none" => last.ret = "removedD"

\* C8 witness: with the stream usable, removeTarget for an id that is not
\* registered threw while another id was registered.
C8_Witness ==
  /\ last.op = "removeTarget"
  /\ last.err = "WatchError"
  /\ stream /\ ~closed
  /\ last.id \notin Ids(targets)
  /\ Len(targets) = 1

\* C9: addTarget and removeTarget throw WatchError when the stream was never
\* opened or close() was called, and such a call leaves the registry, the
\* machines and the requests sent as they were.
C9_FailsWhenNotOpenOrClosed ==
  [][(last'.op \in {"addTarget", "removeTarget"} /\ (~stream \/ closed)) =>
       (last'.err = "WatchError" /\ UNCHANGED <<targets, machines, sent>>)]_vars

\* C9 witness: addTarget threw after close() on an opened stream that had a
\* registered machine.
C9_Witness ==
  /\ last.op = "addTarget"
  /\ last.err = "WatchError"
  /\ stream /\ closed
  /\ Len(targets) = 1

Settled(d) == d.st # "pending"

\* C11: the open() future resolves when the transport reports opened, and
\* rejects with the transport's error when the stream closes with an error
\* before any open signal; close() on an opened stream returns the close
\* future, which settles only when the transport reports closure: resolved on
\* a clean close, rejected with the transport's error otherwise.  Neither
\* future changes once settled.
C11_StreamFuturesFollowTransport ==
  [][/\ (last'.op = "stream.onOpen" /\ tphase' # tphase) =>
          (openD'.st = "resolved" /\ closedD' = closedD)
     /\ (last'.op = "stream.onClose" /\ tphase' # tphase) =>
          /\ closedD'.st = (IF last'.err = "none" THEN "resolved" ELSE "rejected")
          /\ closedD'.err = last'.err
          /\ tphase = "connecting" => (openD'.st = closedD'.st /\ openD'.err = last'.err)
     /\ closedD' # closedD => (last'.op = "stream.onClose" /\ tphase' # tphase)
     /\ openD' # openD => (last'.op \in {"stream.onOpen", "stream.onClose"} /\ tphase' # tphase)
     /\ Settled(openD) => openD' = openD
     /\ Settled(closedD) => closedD' = closedD
     /\ (last'.op = "close" /\ last' # last /\ stream) => last'.ret = "closedD"
    ]_vars

\* C11 witness: close() was called on an opened stream and the transport then
\* closed with an error before it reported opened: both futures are rejected
\* with that error.
C11_Witness ==
  /\ closed /\ stream
  /\ last.op = "stream.onClose"
  /\ last.err = "EIO"
  /\ openD.st = "rejected"
  /\ openD.err = "EIO"
  /\ closedD.st = "rejected"
  /\ closedD.err = "EIO"

\* C12 as stated: an accepted onReset leaves the accumulated set empty and
\* current false, and once an onCurrent has followed it with no document delta
\* since, an onNoChange with a token leaves the snapshot completion resolved
\* with an empty member set.
C12_ResetThenSnapshotIsEmpty ==
  \A i \in DOMAIN machines :
    LET m == machines[i]
        g == ghost[i]
    IN  /\ g.sinceReset.stage = "reset" => (m.names = {} /\ ~m.current)
        /\ g.sinceReset.stage = "current" =>
             \A t \in Tokens :
               LET d == OnNoChange(m, t).m.snapD
               IN  d.st = "resolved" /\ d.val.documentPaths = {}

\* C12 amended: an accepted onReset leaves the accumulated set empty and
\* current false; once an onCurrent has followed it with no document delta
\* since, the machine is current with an empty accumulated set, and an
\* onNoChange with a token resolves the snapshot completion with (the empty
\* set, that token) if that completion is still unsettled, and otherwise
\* leaves its earlier outcome (a snapshot resolved before the reset, or a
\* rejection by onError) as it was.
C12_ResetThenSnapshotIsEmptyIfUnsettled ==
  \A i \in DOMAIN machines :
    LET m == machines[i]
        g == ghost[i]
    IN  /\ g.sinceReset.stage = "reset" => (m.names = {} /\ ~m.current)
        /\ g.sinceReset.stage = "current" =>
             /\ m.names = {} /\ m.current /\ m.added /\ ~m.removed
             /\ \A t \in Tokens :
                  LET r == OnNoChange(m, t)
                  IN  /\ r.err = "none"
                      /\ r.m.snapD =
                           IF m.snapD.st = "pending"
                           THEN [st |-> "resolved", val |-> TargetSnapshot({}, t), err |-> "none"]
                           ELSE m.snapD

\* C12 witness: an onReset cleared a non-empty accumulated set, an onCurrent
\* followed, and the onNoChange(T1) after it resolved the snapshot ({}, T1).
C12_Witness ==
  /\ last.op = "onNoChange"
  /\ last.err = "none"
  /\ ghost[1].sinceReset = [stage |-> "current", cleared |-> TRUE]
  /\ machines[1].snapD = [st |-> "resolved", val |-> TargetSnapshot({}, "T1"), err |-> "none"]

\* The ids a document-change names in both of its lists.
InBothLists == Ids(last.ids) \cap Ids(last.rids)

\* The methods a message invoked on one machine, in order.
DispatchedTo(disp, id) ==
  LET onId == SelectSeq(disp, LAMBDA d : d.id = id)
  IN  [k \in 1..Len(onId) |-> onId[k].ev]

\* C13 as stated: after a document-change that names a target in both lists,
\* the document's name is absent from that target's accumulated set.
C13_AddThenRemoveLeavesAbsent ==
  last.op = "documentChange" =>
    \A i \in InBothLists \cap DOMAIN machines : "A" \notin machines[i].names

\* C13 amended: a document-change invokes onDocumentChanged on the machines
\* of its targetIds before onDocumentRemoved on those of its removedTargetIds;
\* when the message raises no error, the document's name is absent afterwards
\* from the accumulated set of every target named in both lists; when it
\* raises one (a named machine not added or already removed, or an unknown id
\* in removedTargetIds), no method is invoked after the one that threw, so a
\* name the first list added, or a seeded name, may stay.
C13_AddThenRemoveLeavesAbsentUnlessThrown ==
  last.op = "documentChange" =>
    /\ \A k, l \in 1..Len(last.disp) :
         (last.disp[k].ev = "onDocumentChanged" /\ last.disp[l].ev = "onDocumentRemoved")
           => k < l
    /\ last.err = "none" =>
         \A i \in InBothLists :
           /\ "A" \notin machines[i].names
           /\ DispatchedTo(last.disp, i) =
                [k \in 1..Len(SelectSeq(last.ids, LAMBDA x : x = i)) |-> "onDocumentChanged"]
                \o [k \in 1..Len(SelectSeq(last.rids, LAMBDA x : x = i)) |-> "onDocumentRemoved"]

\* C13 witness: a document-change named target 1 in both lists, was processed
\* without error (onDocumentChanged, then onDocumentRemoved on target 1), and
\* left the name out of the set of target 1.
C13_Witness ==
  /\ last.op = "documentChange"
  /\ last.err = "none"
  /\ last.ids = <<1>>
  /\ last.rids = <<1>>
  /\ last.disp = <<[id |-> 1, ev |-> "onDocumentChanged"], [id |-> 1, ev |-> "onDocumentRemoved"]>>
  /\ ghost[1].acc = {}
  /\ machines[1].names = {}
  /\ machines[1].snapD.val = NoSnapshot

(***************************************************************************)
(* createBloomFilterFrom on its own: one added TargetState is handed every *)
(* existence filter of a grid of wire values.                              *)
(***************************************************************************)
Paddings == {{}, {-1}, {0}, {7}, {8}}

HashCounts == {{}, {-1}, {0}, {1}}

Bitmaps == {{}, {""}, {"AQ=="}, {"AQI="}}

BitSequences == {{}} \cup {{b} : b \in [padding : Paddings, bitmap : Bitmaps]}

FilterGrid ==
  {[unchangedNames |-> un] : un \in
     {{}} \cup {{u} : u \in [bits : BitSequences, hashCount : HashCounts]}}

InitBF ==
  /\ InitTS
  /\ ghost[1].acc = {}

BFOnAdded ==
  /\ ~machines[1].added
  /\ TSInvoke(EvAdded)

BFOnError(cause) ==
  /\ machines[1].added
  /\ TSInvoke(EvError(cause))

\* onExistenceFilter(filter); `last.disp` keeps the argument of the call.
BFOnExistenceFilter(filter) ==
  LET c == ApplyEvent(Here, 1, EvExistenceFilter(filter))
  IN  /\ machines' = c.machines
      /\ ghost' = c.ghost
      /\ last' = Observed("onExistenceFilter", 1, c.err, "none", <<>>, <<>>, <<>>,
                          <<[id |-> 1, ev |-> "onExistenceFilter", filter |-> filter]>>)
      /\ UNCHANGED ctrl

NextBF ==
  \/ BFOnAdded
  \/ BFOnError("E1")
  \/ \E f \in FilterGrid : BFOnExistenceFilter(f)

SpecBF == InitBF /\ [][NextBF]_vars

\* The wire parameters of a filter with a payload, absent ones defaulted.
PaddingOf(f) ==
  LET un == Coalesce(f.unchangedNames, 0)
  IN  IF un.bits = {} THEN 0 ELSE Coalesce(Coalesce(un.bits, 0).padding, 0)

HashCountOf(f) == Coalesce(Coalesce(f.unchangedNames, 0).hashCount, 0)

BytesOf(f) ==
  LET un == Coalesce(f.unchangedNames, 0)
  IN  IF un.bits = {} THEN <<>>
      ELSE ToUint8Array(Coalesce(Coalesce(un.bits, 0).bitmap, ""))

InvalidFilter(f) ==
  /\ f.unchangedNames # {}
  /\ \/ PaddingOf(f) < 0
     \/ PaddingOf(f) > 7
     \/ HashCountOf(f) < 0
     \/ HashCountOf(f) = 0 /\ Len(BytesOf(f)) > 0

\* C14: handed to an added machine, a filter without unchangedNames yields the
\* null filter and no error; one whose padding is outside 0..7, whose hash
\* count is negative, or whose hash count is 0 with a non-empty decoded bitmap
\* throws InvalidBloomFilterError and settles no completion; any other one
\* yields a filter of exactly its decoded bitmap, padding and hash count
\* (absent padding and hash count are 0, absent bits or bitmap are empty),
\* with which the still unsettled existence-filter completion is resolved.
C14_FilterConstruction ==
  [][(last'.op = "onExistenceFilter" /\ machines[1].added) =>
       LET f == last'.disp[1].filter
           made == IF f.unchangedNames = {} THEN NullFilter
                   ELSE [kind |-> "bloom", bitmap |-> BytesOf(f),
                         padding |-> PaddingOf(f), hashCount |-> HashCountOf(f)]
       IN  IF InvalidFilter(f)
           THEN last'.err = "InvalidBloomFilterError" /\ machines' = machines
           ELSE /\ last'.err = "none"
                /\ machines'[1].filterD =
                     IF machines[1].filterD.st = "pending"
                     THEN [st |-> "resolved", val |-> made, err |-> "none"]
                     ELSE machines[1].filterD
    ]_vars

\* C14 witness: a filter with hash count 0 and a non-empty bitmap threw and
\* left the existence-filter completion unsettled.
C14_Witness ==
  /\ last.op = "onExistenceFilter"
  /\ last.err = "InvalidBloomFilterError"
  /\ last.disp[1].filter.unchangedNames =
       {[bits |-> {[padding |-> {7}, bitmap |-> {"AQI="}]}, hashCount |-> {0}]}
  /\ machines[1].added
  /\ machines[1].filterD.st = "pending"

\* C15: every addTarget call, failing or not, takes the next id, which is
\* positive and one more than the id of the call before it; the counter never
\* goes back; a machine is created under an id no machine was created under;
\* every machine ever created, registered or evicted, has an id smaller than
\* the next id to assign, and the registry lists its ids in increasing order.
C15_IdsIncreaseAndAreNotReused ==
  [][/\ nextTargetId' >= nextTargetId
     /\ nextTargetId' >= 1
     /\ \A i \in DOMAIN machines' : i >= 1 /\ i < nextTargetId' /\ machines'[i].targetId = i
     /\ \A k, l \in 1..Len(targets') : k < l => targets'[k] < targets'[l]
     /\ Ids(targets') \subseteq DOMAIN machines'
     /\ (last'.op = "addTarget" /\ last' # last) =>
          /\ last'.id = nextTargetId
          /\ nextTargetId' = nextTargetId + 1
          /\ last'.id \notin DOMAIN machines
          /\ last'.err = "none" => DOMAIN machines' = DOMAIN machines \cup {last'.id}
     /\ last'.op # "addTarget" => DOMAIN machines' = DOMAIN machines
    ]_vars

\* C15 witness: target 1 was evicted by its REMOVE and the next addTarget call
\* registered its machine under id 2.
C15_Witness ==
  /\ last.op = "addTarget"
  /\ last.err = "none"
  /\ last.id = 2
  /\ 1 \in DOMAIN machines
  /\ machines[1].removed
  /\ targets = <<2>>
  /\ nextTargetId = 3

Deltas == {EvDocumentChanged(d) : d \in Docs} \cup {EvDocumentRemoved(d) : d \in Docs}

\* C16: an accepted onDocumentChanged or onDocumentRemoved leaves current
\* false, and an onNoChange right after it, whatever its token, leaves the
\* snapshot completion as it was; the machine is current exactly when an
\* onCurrent was accepted with no delta and no onReset since; the only event
\* that resolves the snapshot completion is an onNoChange with a token applied
\* while that is so.
C16_SnapshotNeedsFreshCurrent ==
  \A i \in DOMAIN machines :
    LET m == machines[i]
        g == ghost[i]
    IN  /\ m.current <=> g.cycle = "current"
        /\ \A e \in Deltas :
             LET r == Invoke(m, e)
             IN  r.err = "none" =>
                   /\ ~r.m.current
                   /\ \A t \in Tokens \cup {Null} : OnNoChange(r.m, t).m.snapD = m.snapD
        /\ \A e \in TSEvents :
             (Invoke(m, e).m.snapD.st = "resolved" /\ m.snapD.st # "resolved") =>
               (e.ev = "onNoChange" /\ e.token # Null /\ g.cycle = "current")

\* C16 witness: an onCurrent, then a document delta, then an onNoChange with a
\* token were accepted, and the snapshot completion is still pending.
C16_Witness ==
  /\ ghost[1].cycle = "currentDeltaToken"
  /\ last.op = "onNoChange"
  /\ last.err = "none"
  /\ ~machines[1].current
  /\ machines[1].snapD.st = "pending"

\* A completion after an onError(cause): rejected with the cause if it was
\* unsettled, as it was otherwise.
RejectedIfPending(d, cause) ==
  IF d.st = "pending" THEN [st |-> "rejected", val |-> d.val, err |-> cause] ELSE d

\* A machine after n >= 1 calls of onError(cause): nothing but its unsettled
\* completions differs.
AfterCause(m, cause) ==
  [m EXCEPT !.addedD = RejectedIfPending(@, cause),
            !.removedD = RejectedIfPending(@, cause),
            !.snapD = RejectedIfPending(@, cause),
            !.filterD = RejectedIfPending(@, cause)]

\* C17: a target-change that carries a cause (its first dispatch is onError)
\* raises nothing and invokes onError, and no other method, once per entry on
\* every machine it resolves to: all registered machines when its id list is
\* empty; each such machine has its unsettled completions rejected with the
\* cause and nothing else changed, the other machines and the registry are as
\* before, whatever change type the message carries.
C17_CauseRejectsUnsettledOnAllResolved ==
  [][(/\ last'.op = "targetChange"
      /\ received' # received
      /\ Len(last'.disp) >= 1
      /\ last'.disp[1].ev = "onError") =>
       LET resolved == IF last'.ids = <<>> THEN targets ELSE last'.ids
       IN  /\ last'.err = "none"
           /\ Dispatched(last'.disp) = resolved
           /\ \A k \in 1..Len(last'.disp) : last'.disp[k].ev = "onError"
           /\ targets' = targets
           /\ DOMAIN machines' = DOMAIN machines
           /\ \A i \in DOMAIN machines :
                machines'[i] = IF i \in Ids(resolved) THEN AfterCause(machines[i], "E1")
                               ELSE machines[i]
    ]_vars

\* C17 witness: a target-change with a cause and an empty id list reached both
\* registered machines; target 1, added before, kept its added completion
\* resolved and its flag, and had its other completions rejected; target 2,
\* not yet added, had its added completion rejected and stays registered.
C17_Witness ==
  /\ last.op = "targetChange"
  /\ last.ids = <<>>
  /\ last.disp = <<[id |-> 1, ev |-> "onError"], [id |-> 2, ev |-> "onError"]>>
  /\ targets = <<1, 2>>
  /\ machines[1].added
  /\ machines[1].addedD.st = "resolved"
  /\ machines[1].removedD = [st |-> "rejected", val |-> Void, err |-> "E1"]
  /\ ~machines[2].added
  /\ machines[2].addedD = [st |-> "rejected", val |-> Void, err |-> "E1"]

StreamOps == {"open", "close", "stream.onOpen", "stream.onClose"}

\* C18: a completion of a machine is rejected only if an onError was
\* dispatched to that machine, and then with the cause of a target-change;
\* open(), close() and the transport's open and close callbacks change no
\* machine and resume no addTarget call; once the transport has closed, no
\* existing machine changes any more and an addTarget call waiting for its ADD
\* keeps waiting.
C18_OnlyCauseRejectsTargetCompletions ==
  [][/\ \A i \in DOMAIN machines' : \A k \in 1..4 :
          Completions(machines'[i])[k].st = "rejected" =>
            (ghost'[i].errd /\ Completions(machines'[i])[k].err \in Causes)
     /\ last'.op \in StreamOps => (machines' = machines /\ calls' = calls /\ targets' = targets)
     /\ tphase = "closed" =>
          /\ \A i \in DOMAIN machines : machines'[i] = machines[i]
          /\ \A i \in DOMAIN calls :
               (calls[i].st = "awaiting" /\ machines[i].addedD.st = "pending")
                 => calls'[i].st = "awaiting"
    ]_vars

\* C18 witness: the transport closed with an error while the addTarget call
\* for target 1 awaited its ADD and a removeTarget request for it was out; the
\* stream's completions are rejected, those of the target are still pending.
C18_Witness ==
  /\ tphase = "closed"
  /\ closedD.st = "rejected"
  /\ 1 \in DOMAIN calls
  /\ calls[1].st = "awaiting"
  /\ sent.remove = 1
  /\ machines[1].addedD.st = "pending"
  /\ machines[1].removedD.st = "pending"
  /\ last.op = "getInitialSnapshot"
  /\ last.err = "none"

MessageOps == {"targetChange", "documentChange", "documentRemove", "documentDelete", "filter"}

\* The step delivers a message that names an id the registry does not hold.
NamesUnknownId ==
  /\ last'.op \in MessageOps
  /\ received' # received
  /\ \E id \in Ids(last'.ids) \cup Ids(last'.rids) : id \notin Ids(targets)

\* C19 as stated: a message that names an id not in the registry raises
\* WatchError and changes no machine and no registry entry.
C19_UnknownIdAbortsWholeMessage ==
  [][NamesUnknownId =>
       (last'.err = "WatchError" /\ machines' = machines /\ targets' = targets)]_vars

\* C19 amended: a message that names an id not in the registry always raises
\* an error and never changes the registry.  A target-change, document-remove,
\* document-delete or existence-filter, and a document-change with an unknown
\* id in targetIds, raises WatchError before any machine is invoked and
\* changes nothing.  A document-change whose targetIds are all registered and
\* whose removedTargetIds names an unknown id has run onDocumentChanged on the
\* machines of targetIds (every registered machine when targetIds is empty)
\* before removedTargetIds is looked up: it raises TargetStateError if one of
\* them throws, WatchError otherwise, and in both cases no onDocumentRemoved
\* runs, while every machine that accepted onDocumentChanged keeps the name in
\* its set and has current false; flags added and removed and all completions
\* are unchanged.
C19_UnknownIdAbortsAtLookup ==
  [][NamesUnknownId =>
       /\ targets' = targets
       /\ IF last'.op = "documentChange" /\ Ids(last'.ids) \subseteq Ids(targets)
          THEN LET first == IF last'.ids = <<>> THEN targets ELSE last'.ids
               IN  /\ last'.err \in {"WatchError", "TargetStateError"}
                   /\ \A k \in 1..Len(last'.disp) : last'.disp[k].ev = "onDocumentChanged"
                   /\ IsPrefix(Dispatched(last'.disp), first)
                   /\ last'.err = "WatchError" =>
                        /\ Dispatched(last'.disp) = first
                        /\ \A i \in Ids(first) :
                             machines'[i] = [machines[i] EXCEPT !.names = @ \cup {"A"},
                                                                 !.current = FALSE]
                   /\ \A i \in DOMAIN machines :
                        /\ i \notin Ids(Dispatched(last'.disp)) => machines'[i] = machines[i]
                        /\ machines[i].names \subseteq machines'[i].names
                        /\ machines'[i].names \subseteq machines[i].names \cup {"A"}
                        /\ machines'[i].added = machines[i].added
                        /\ machines'[i].removed = machines[i].removed
                        /\ Completions(machines'[i]) = Completions(machines[i])
          ELSE /\ last'.err = "WatchError"
               /\ last'.disp = <<>>
               /\ machines' = machines
    ]_vars

\* C19 witness: a document-change whose targetIds named the added target 1 and
\* whose removedTargetIds named the unknown id 2 raised WatchError after it
\* had put the name into the set of target 1.
C19_Witness ==
  /\ last.op = "documentChange"
  /\ last.err = "WatchError"
  /\ last.ids = <<1>>
  /\ last.rids = <<2>>
  /\ last.reg = <<1>>
  /\ last.disp = <<[id |-> 1, ev |-> "onDocumentChanged"]>>
  /\ machines[1].names = {"A"}
  /\ targets = <<1>>

\* The position in the registry of the first machine that is not added.
FirstNotAdded(ts, ms) ==
  CHOOSE j \in 1..Len(ts) :
    /\ ~ms[ts[j]].added
    /\ \A k \in 1..(j - 1) : ms[ts[k]].added

\* C20: a target-change without cause and with an empty id list that carries
\* CURRENT, RESET, NO_CHANGE or REMOVE, processed while a registered machine is
\* not yet added, raises TargetStateError at the first such machine in
\* registration order: the machines before it were processed (current set by
\* CURRENT; set emptied and current cleared by RESET; removed and evicted by
\* REMOVE), that machine and the machines after it are unchanged, and the ones
\* after it are not invoked.
C20_BroadcastStopsAtNotYetAdded ==
  [][(/\ last'.op = "targetChange"
      /\ received' # received
      /\ last'.ids = <<>>
      /\ Len(last'.disp) >= 1
      /\ last'.disp[1].ev \in {"onCurrent", "onReset", "onNoChange", "onRemoved"}
      /\ \E k \in 1..Len(targets) : ~machines[targets[k]].added) =>
       LET j == FirstNotAdded(targets, machines)
           ev == last'.disp[1].ev
       IN  /\ last'.err = "TargetStateError"
           /\ Dispatched(last'.disp) = SubSeq(targets, 1, j)
           /\ \A k \in 1..Len(last'.disp) : last'.disp[k].ev = ev
           /\ \A k \in j..Len(targets) : machines'[targets[k]] = machines[targets[k]]
           /\ {targets[k] : k \in j..Len(targets)} \subseteq Ids(targets')
           /\ \A k \in 1..(j - 1) :
                LET before == machines[targets[k]]
                    after == machines'[targets[k]]
                IN  /\ ev = "onCurrent" => after.current
                    /\ ev = "onReset" => (after.names = {} /\ ~after.current)
                    /\ ev = "onRemoved" =>
                         (after.removed /\ after.removedD.st # "pending"
                          /\ targets[k] \notin Ids(targets'))
                    /\ ev # "onRemoved" => targets[k] \in Ids(targets')
    ]_vars

\* C20 witness: with target 1 added and the addTarget call for target 2 still
\* awaiting its ADD, a REMOVE with an empty id list removed and evicted target
\* 1 and then threw at target 2, which stays registered and not added.
C20_Witness ==
  /\ last.op = "targetChange"
  /\ last.ids = <<>>
  /\ last.reg = <<1, 2>>
  /\ last.err = "TargetStateError"
  /\ last.disp = <<[id |-> 1, ev |-> "onRemoved"], [id |-> 2, ev |-> "onRemoved"]>>
  /\ targets = <<2>>
  /\ machines[1].removed
  /\ ~machines[2].added
  /\ calls[2].st = "awaiting"

====
